---- MODULE Spec2Model ----
(***************************************************************************)
(* Callback debug server (src/main.py): the logging middleware             *)
(* log_request_info, the catch-all route catch_all_endpoint and the        *)
(* rotating file sink configured in logging.basicConfig.                   *)
(*                                                                         *)
(* Requests are handled by tasks of one asyncio event loop.  A task keeps  *)
(* the loop until it reaches an await (src/main.py:50 and :101) or ends.   *)
(* Bytes and characters are numbers (byte values, Unicode code points);    *)
(* times are integer milliseconds of the wall clock.                       *)
(***************************************************************************)
EXTENDS Integers, Sequences, FiniteSets, TLC

VARIABLES
    req,          \* req[r]: the inbound request r (method, url_path, query, headers, body)
    pc,           \* pc[r]: position of r's middleware task in log_request_info
    running,      \* the request whose task holds the event loop, 0 when the loop is free
    start_time,   \* start_time[r]: line 47
    response,     \* response[r]: what call_next produced for r (line 101)
    outcome,      \* outcome[r]: "none", "response" or "exception" of call_next
    calls,        \* calls[r]: number of call_next invocations made for r
    returned,     \* returned[r]: the response the client of r receives
    log,          \* the records handed to the root logger's handlers, in order
    fileSize,     \* bytes in callback.log
    backups,      \* backups[i]: generation of callback.log.i (1 = newest)
    generation,   \* generation of the file currently written
    lastWrite     \* bytes of the record written last to callback.log

vars == <<req, pc, running, start_time, response, outcome, calls, returned, log,
          fileSize, backups, generation, lastWrite>>

reqVars == <<req, pc, running, start_time, response, outcome, calls, returned, log>>
sinkVars == <<fileSize, backups, generation, lastWrite>>

(***************************************************************************)
(* Bounds of the model.                                                    *)
(***************************************************************************)
NumRequests == 2
MaxBody == 3
MaxPath == 2
MaxRollovers == 2

Reqs == 1..NumRequests
\* readings of the wall clock (datetime.now()), which may come in either order
ClockValues == {0, 1}

(***************************************************************************)
(* Sequences helpers.                                                      *)
(***************************************************************************)
SeqsUpTo(S, n) == UNION {[1..k -> S] : k \in 0..n}

RECURSIVE Flatten(_)
Flatten(ss) == IF ss = <<>> THEN <<>> ELSE Head(ss) \o Flatten(Tail(ss))

Repeat(c, n) == [i \in 1..n |-> c]

(***************************************************************************)
(* body.decode('utf-8', errors='ignore'): one-byte and two-byte forms;     *)
(* a byte that is part of no valid sequence is dropped.                    *)
(***************************************************************************)
IsLead2(b, i) == b[i] >= 194 /\ b[i] <= 223
IsCont(b, i) == i >= 1 /\ i <= Len(b) /\ b[i] >= 128 /\ b[i] <= 191

\* the character decoded at byte i, or -1 when byte i yields none: it continues
\* the two-byte sequence started at i-1, or it starts no valid sequence
decode_at(b, i) ==
    IF b[i] < 128 THEN b[i]
    ELSE IF IsLead2(b, i) /\ IsCont(b, i + 1) THEN (b[i] - 192) * 64 + (b[i+1] - 128)
    ELSE -1

decode_utf8_ignore(b) ==
    SelectSeq([i \in 1..Len(b) |-> decode_at(b, i)], LAMBDA c : c >= 0)

NoContent == [none |-> TRUE, text |-> <<>>]

\* body.decode('utf-8', errors='ignore') if body else None
body_content(body) ==
    IF body # <<>> THEN [none |-> FALSE, text |-> decode_utf8_ignore(body)]
    ELSE NoContent

\* truthiness of request_info['body_content']: None and '' are both false
Truthy(content) == ~content.none /\ content.text # <<>>

(***************************************************************************)
(* json.loads on str: integers, strings without escapes, arrays.           *)
(* A value is [t, n, s, items]; a parse result is [err, val, end].         *)
(***************************************************************************)
RecursionLimit == 1000

JInt(n) == [t |-> "int", n |-> n, s |-> <<>>, items |-> <<>>]
JStr(s) == [t |-> "str", n |-> 0, s |-> s, items |-> <<>>]
JList(items) == [t |-> "list", n |-> 0, s |-> <<>>, items |-> items]
JNull == [t |-> "null", n |-> 0, s |-> <<>>, items |-> <<>>]

Ok(v, e) == [err |-> "", val |-> v, end |-> e]
Fail(kind) == [err |-> kind, val |-> JNull, end |-> 0]

IsWs(c) == c \in {32, 9, 10, 13}
IsDigit(c) == c >= 48 /\ c <= 57

RECURSIVE skip_ws(_, _)
skip_ws(s, i) == IF i <= Len(s) /\ IsWs(s[i]) THEN skip_ws(s, i + 1) ELSE i

RECURSIVE scan_digits(_, _, _)
scan_digits(s, i, acc) ==
    IF i <= Len(s) /\ IsDigit(s[i]) THEN scan_digits(s, i + 1, acc * 10 + (s[i] - 48))
    ELSE Ok(JInt(acc), i)

\* scanstring: up to the closing quote; control characters are rejected, and no
\* body of the model holds a backslash (escape sequences are not modelled)
RECURSIVE scanstring(_, _, _)
scanstring(s, i, acc) ==
    IF i > Len(s) THEN Fail("JSONDecodeError")
    ELSE IF s[i] = 34 THEN Ok(JStr(acc), i + 1)
    ELSE IF s[i] < 32 \/ s[i] = 92 THEN Fail("JSONDecodeError")
    ELSE scanstring(s, i + 1, Append(acc, s[i]))

RECURSIVE scan_once(_, _, _)
RECURSIVE parse_array_items(_, _, _, _)

\* after a value of the array: ']' ends it, ',' continues it
parse_array_items(s, i, depth, acc) ==
    LET v == scan_once(s, i, depth)
        j == skip_ws(s, v.end)
    IN  IF v.err # "" THEN v
        ELSE IF j <= Len(s) /\ s[j] = 93 THEN Ok(JList(Append(acc, v.val)), j + 1)
        ELSE IF j <= Len(s) /\ s[j] = 44
             THEN parse_array_items(s, skip_ws(s, j + 1), depth, Append(acc, v.val))
        ELSE Fail("JSONDecodeError")

\* number of '[' in a row from i: the scanner enters one nested call for each
\* before it looks at anything else
open_run(s, i) ==
    LET stops == {j \in i..Len(s) : s[j] # 91}
    IN  IF stops = {} THEN Len(s) - i + 1
        ELSE (CHOOSE j \in stops : \A k \in stops : j <= k) - i

scan_once(s, i, depth) ==
    IF i > Len(s) THEN Fail("JSONDecodeError")
    ELSE IF s[i] = 34 THEN scanstring(s, i + 1, <<>>)
    ELSE IF s[i] = 91 THEN
        IF depth + open_run(s, i) > RecursionLimit THEN Fail("RecursionError")
        ELSE LET j == skip_ws(s, i + 1)
             IN  IF j <= Len(s) /\ s[j] = 93 THEN Ok(JList(<<>>), j + 1)
                 ELSE parse_array_items(s, j, depth + 1, <<>>)
    ELSE IF s[i] = 48 THEN Ok(JInt(0), i + 1)
    ELSE IF IsDigit(s[i]) THEN scan_digits(s, i, 0)
    ELSE Fail("JSONDecodeError")

json_loads(s) ==
    LET r == scan_once(s, skip_ws(s, 1), 0)
    IN  IF r.err # "" THEN r
        ELSE IF skip_ws(s, r.end) # Len(s) + 1 THEN Fail("JSONDecodeError")
        ELSE r

(***************************************************************************)
(* json.dumps(obj, indent, ensure_ascii); indent < 0 stands for None.      *)
(***************************************************************************)
RECURSIVE int_str(_)
int_str(n) == IF n < 10 THEN <<48 + n>> ELSE int_str(n \div 10) \o <<48 + (n % 10)>>

HexDigit(d) == IF d < 10 THEN 48 + d ELSE 87 + d

encode_char(c, ensure_ascii) ==
    IF c = 34 THEN <<92, 34>>
    ELSE IF c = 92 THEN <<92, 92>>
    ELSE IF ensure_ascii /\ c > 126
         THEN <<92, 117, HexDigit((c \div 4096) % 16), HexDigit((c \div 256) % 16),
                HexDigit((c \div 16) % 16), HexDigit(c % 16)>>
    ELSE <<c>>

encode_str(s, ensure_ascii) ==
    <<34>> \o Flatten([i \in 1..Len(s) |-> encode_char(s[i], ensure_ascii)]) \o <<34>>

newline_indent(indent, level) == <<10>> \o Repeat(32, indent * level)

RECURSIVE json_dumps_level(_, _, _, _)
json_dumps_level(v, indent, ensure_ascii, level) ==
    IF v.t = "int" THEN int_str(v.n)
    ELSE IF v.t = "str" THEN encode_str(v.s, ensure_ascii)
    ELSE IF v.items = <<>> THEN <<91, 93>>
    ELSE LET sep == IF indent < 0 THEN <<44, 32>> ELSE <<44>> \o newline_indent(indent, level + 1)
             open == IF indent < 0 THEN <<>> ELSE newline_indent(indent, level + 1)
             close == IF indent < 0 THEN <<>> ELSE newline_indent(indent, level)
             item(k) == (IF k = 1 THEN <<>> ELSE sep)
                        \o json_dumps_level(v.items[k], indent, ensure_ascii, level + 1)
         IN  <<91>> \o open \o Flatten([k \in 1..Len(v.items) |-> item(k)]) \o close \o <<93>>

json_dumps(v, indent, ensure_ascii) == json_dumps_level(v, indent, ensure_ascii, 0)

(***************************************************************************)
(* Requests.                                                               *)
(***************************************************************************)
\* methods=[...] of the route, src/main.py:118
RouteMethods == {"GET", "POST", "PUT", "DELETE", "PATCH", "OPTIONS", "HEAD"}
\* what a client may send: the route's methods and one that is not among them
Methods == RouteMethods \cup {"TRACE"}

\* '[', ']', '1', '"', and the two bytes of U+00E9, each of which alone is invalid
ByteAlphabet == {91, 93, 49, 34, 195, 169}
\* A body is kept as runs <<byte, count>> of equal bytes; bytes_of is the byte
\* string that request.body() returns.
Runs(b) == [i \in 1..Len(b) |-> <<b[i], 1>>]
bytes_of(body) == Flatten([i \in 1..Len(body) |-> Repeat(body[i][1], body[i][2])])

\* a JSON document nested deeper than the interpreter's recursion limit
DeepBody == <<<<91, RecursionLimit + 1>>>>
Bodies == {Runs(b) : b \in SeqsUpTo(ByteAlphabet, MaxBody)} \cup {DeepBody}
\* empty, [1], a lone continuation byte, 1], and "\u00e9" in UTF-8
SampleBodies ==
    {Runs(b) : b \in {<<>>, <<91, 49, 93>>, <<169>>, <<49, 93>>, <<34, 195, 169, 34>>}}

\* URL paths: '/' followed by any string over {'a', '/'}
UrlPaths == {<<47>> \o p : p \in SeqsUpTo({97, 47}, MaxPath)}

Queries == {<<>>, <<<<"retry", "1">>>>, <<<<"k", "1">>, <<"k", "2">>>>}
HeaderLists == {<<<<"host", "h">>>>, <<<<"host", "h">>, <<"x-id", "1">>, <<"x-id", "2">>>>}

NoPeer == [known |-> FALSE, host |-> "", port |-> 0]
Peers == {NoPeer, [known |-> TRUE, host |-> "127.0.0.1", port |-> 50000]}

Request(m, u, q, h, p, b) ==
    [method |-> m, url_path |-> u, query |-> q, headers |-> h, peer |-> p, body |-> b]

NoRequest == Request("", <<>>, <<>>, <<>>, NoPeer, <<>>)

DefaultHeaders == <<<<"host", "h">>>>

\* one request of any kind: every method on every path with a few bodies, every
\* query, header list and peer on one route, and every body on one route
AllRequests ==
    {Request(m, u, <<>>, DefaultHeaders, NoPeer, b) :
        m \in Methods, u \in UrlPaths, b \in SampleBodies}
    \cup {Request("GET", <<47, 97>>, q, h, p, Runs(<<>>)) :
        q \in Queries, h \in HeaderLists, p \in Peers}
    \cup {Request("POST", <<47, 97>>, <<>>, DefaultHeaders, NoPeer, b) : b \in Bodies}

\* the requests that are in flight together
SampleRequests ==
    << Request("GET", <<47>>, <<>>, DefaultHeaders, NoPeer, Runs(<<>>)),
       Request("POST", <<47, 97>>, <<<<"retry", "1">>>>, DefaultHeaders,
               [known |-> TRUE, host |-> "127.0.0.1", port |-> 50000], Runs(<<91, 49, 93>>)),
       Request("PUT", <<47, 97, 97>>, <<>>, DefaultHeaders, NoPeer, DeepBody) >>

(***************************************************************************)
(* dict(request.headers), dict(request.query_params): one entry per key,   *)
(* in the order the keys first appear, holding the key's last value.       *)
(***************************************************************************)
LastValue(pairs, k) ==
    LET idx == {i \in 1..Len(pairs) : pairs[i][1] = k}
    IN  pairs[CHOOSE i \in idx : \A j \in idx : j <= i][2]

FirstAt(pairs, i) == \A j \in 1..(i - 1) : pairs[j][1] # pairs[i][1]

dict(pairs) ==
    LET keyed == [i \in 1..Len(pairs) |->
                    <<pairs[i][1], LastValue(pairs, pairs[i][1]), FirstAt(pairs, i)>>]
        kept == SelectSeq(keyed, LAMBDA e : e[3])
    IN  [i \in 1..Len(kept) |-> <<kept[i][1], kept[i][2]>>]

\* f"{request.client.host}:{request.client.port}" if request.client else "unknown"
client(request) ==
    IF request.peer.known THEN <<request.peer.host, ":", request.peer.port>>
    ELSE <<"unknown">>

\* the request_info dict of lines 53-62
request_info(request, start) ==
    [timestamp |-> start,
     method |-> request.method,
     url |-> <<request.url_path, request.query>>,
     headers |-> dict(request.headers),
     query_params |-> dict(request.query),
     client |-> client(request),
     body_size |-> Len(bytes_of(request.body)),
     body_content |-> body_content(bytes_of(request.body))]

(***************************************************************************)
(* Log records.  kind names the logger.info call that made the record.     *)
(***************************************************************************)
Line(r, kind, text, num) == [rid |-> r, kind |-> kind, text |-> text, num |-> num]

Plain(r, kind) == Line(r, kind, <<>>, 0)

PreKinds == {"banner", "received", "method", "url", "client", "body_size", "rule",
             "headers_title", "header", "query_title", "query", "body_title", "body",
             "banner_end", "request_details"}
PostKinds == {"response", "response_details"}

\* lines 65-71
meta_lines(r) ==
    LET info == request_info(req[r], start_time[r])
    IN  << Plain(r, "banner"),
           Line(r, "received", <<>>, start_time[r]),
           Line(r, "method", <<req[r].method>>, 0),
           Line(r, "url", info.url, 0),
           Line(r, "client", info.client, 0),
           Line(r, "body_size", <<>>, info.body_size),
           Plain(r, "rule") >>

\* lines 74-76
header_lines(r) ==
    LET h == request_info(req[r], start_time[r]).headers
    IN  <<Plain(r, "headers_title")>> \o [i \in 1..Len(h) |-> Line(r, "header", h[i], 0)]

\* lines 79-82
query_lines(r) ==
    LET q == request_info(req[r], start_time[r]).query_params
    IN  IF q # <<>>
        THEN <<Plain(r, "query_title")>> \o [i \in 1..Len(q) |-> Line(r, "query", q[i], 0)]
        ELSE <<>>

\* json.dumps(json_body, indent=2, ensure_ascii=False), line 90
pretty(json_body) == json_dumps(json_body, 2, FALSE)

\* lines 85-93: the records logged, and whether an exception leaves the try block
body_step(r) ==
    LET content == request_info(req[r], start_time[r]).body_content
        parsed == json_loads(content.text)
    IN  IF ~Truthy(content) THEN [lines |-> <<>>, raised |-> FALSE]
        ELSE IF parsed.err = ""
             THEN [lines |-> <<Plain(r, "body_title"),
                               Line(r, "body", pretty(parsed.val), 0)>>,
                   raised |-> FALSE]
        ELSE IF parsed.err = "JSONDecodeError"
             THEN [lines |-> <<Plain(r, "body_title"), Line(r, "body", content.text, 0)>>,
                   raised |-> FALSE]
        ELSE [lines |-> <<Plain(r, "body_title")>>, raised |-> TRUE]

\* a middleware that omits the consolidated record of line 98
close_lines_without_details(r) == <<Plain(r, "banner_end")>>

\* lines 95-98; the last record holds the request_info dict
close_lines(r) ==
    << Plain(r, "banner_end"),
       Line(r, "request_details", <<request_info(req[r], start_time[r])>>, 0) >>

\* lines 104-114; process_time = (end_time - start_time).total_seconds(), kept
\* in num; the last record holds the response_info dict
post_lines(r, end_time) ==
    LET process_time == end_time - start_time[r]
        response_info == [timestamp |-> end_time,
                          status_code |-> response[r].status_code,
                          process_time |-> process_time]
    IN  << Line(r, "response", <<response[r].status_code>>, process_time),
           Line(r, "response_details", <<response_info>>, process_time) >>

(***************************************************************************)
(* The downstream application: routing and catch_all_endpoint.             *)
(***************************************************************************)
NoBody == [status |-> "", message |-> <<>>, path |-> <<>>, method |-> ""]
NoResponse == [status_code |-> 0, body |-> NoBody]

\* "/{path:path}": the leading '/', then anything, which is the path parameter
route_matches(url_path) == url_path # <<>> /\ Head(url_path) = 47
path_param(url_path) == Tail(url_path)

\* an endpoint that echoes the path with the leading '/' of the message
catch_all_endpoint_with_slash(request, path) ==
    [status |-> "success",
     message |-> <<"/", path, " ", request.method>>,
     path |-> <<47>> \o path,
     method |-> request.method]

\* lines 119-127; the message keeps the parts of the f-string that vary, and
\* received_at, a further clock read, is left out of the body
catch_all_endpoint(request, path) ==
    [status |-> "success",
     message |-> <<"/", path, " ", request.method>>,
     path |-> path,
     method |-> request.method]

\* the router in front of the endpoint: 404 for no route, 405 for a method the
\* route does not list, else the endpoint's dict as a 200 JSON response
app(request) ==
    IF ~route_matches(request.url_path) THEN [status_code |-> 404, body |-> NoBody]
    ELSE IF request.method \notin RouteMethods THEN [status_code |-> 405, body |-> NoBody]
    ELSE [status_code |-> 200,
          body |-> catch_all_endpoint(request, path_param(request.url_path))]

\* what the server sends when an exception leaves the middleware
server_error == [status_code |-> 500, body |-> NoBody]

\* a middleware that keeps the request in a module-level variable, which a
\* request that arrived meanwhile has overwritten
scope_shared(r) ==
    LET others == {q \in Reqs : q # r /\ pc[q] \notin {"absent", "start"}}
    IN  IF others = {} THEN req[r] ELSE req[CHOOSE q \in others : TRUE]

\* the request object log_request_info holds and hands to call_next, line 101
scope(r) == req[r]

(***************************************************************************)
(* Scheduling: the positions at which r's task does not hold the loop.     *)
(***************************************************************************)
\* a middleware with an await between the header records and the query records
Yields_inside_pre_phase(p) ==
    p \in {"start", "await_body", "log_query", "await_call_next", "resume", "done", "raised"}

Yields(p) == p \in {"start", "await_body", "await_call_next", "resume", "done", "raised"}

Sched(r, p) == IF Yields(p) THEN 0 ELSE r

CanRun(r) == running \in {0, r}

(***************************************************************************)
(* The rotating file sink, src/main.py:15-20.                              *)
(***************************************************************************)
mebibyte == 1024 * 1024
maxBytes == 10 * 1024 * 1024
backupCount == 10

Absent == -1
NoBackups == [i \in 1..(backupCount + 1) |-> Absent]

\* the records written: characters of the formatted message and bytes of its
\* UTF-8 encoding (the messages of this program hold CJK text and emoji)
Records ==
    { [chars |-> mebibyte, bytes |-> mebibyte],
      [chars |-> 4 * mebibyte, bytes |-> 4 * mebibyte],
      [chars |-> 3 * mebibyte, bytes |-> 9 * mebibyte],
      [chars |-> 11 * mebibyte, bytes |-> 11 * mebibyte] }

\* RotatingFileHandler.shouldRollover: msg = "%s\n" % format(record);
\* stream.tell() + len(msg) >= maxBytes, len counting characters
shouldRollover(size, record) ==
    maxBytes > 0 /\ size + (record.chars + 1) >= maxBytes

\* the loop of doRollover: for i in range(backupCount - 1, 0, -1)
RECURSIVE shift_backups(_, _)
shift_backups(files, i) ==
    IF i < 1 THEN files
    ELSE shift_backups(
            IF files[i] # Absent
            THEN [files EXCEPT ![i + 1] = files[i], ![i] = Absent]
            ELSE files,
            i - 1)

\* a rollover whose loop starts one file too high and so keeps one file more
doRollover_keeps_one_more(files, gen) ==
    IF backupCount > 0
    THEN [shift_backups(files, backupCount) EXCEPT ![1] = gen]
    ELSE files

\* RotatingFileHandler.doRollover: callback.log becomes callback.log.1
doRollover(files, gen) ==
    IF backupCount > 0
    THEN [shift_backups(files, backupCount - 1) EXCEPT ![1] = gen]
    ELSE files

(***************************************************************************)
(* Initial states.                                                         *)
(***************************************************************************)
InitSinkVars ==
    /\ fileSize = 0
    /\ backups = NoBackups
    /\ generation = 0
    /\ lastWrite = 0

InitReqVars(rq, present) ==
    /\ req = rq
    /\ pc = [r \in Reqs |-> IF r \in present THEN "start" ELSE "absent"]
    /\ running = 0
    /\ start_time = [r \in Reqs |-> 0]
    /\ response = [r \in Reqs |-> NoResponse]
    /\ outcome = [r \in Reqs |-> "none"]
    /\ calls = [r \in Reqs |-> 0]
    /\ returned = [r \in Reqs |-> NoResponse]
    /\ log = <<>>

\* either NumRequests sample requests in flight together (the requests are
\* interchangeable, so the samples are taken in non-decreasing order), or one
\* request of any kind
Init ==
    /\ InitSinkVars
    /\ \/ \E pick \in [Reqs -> DOMAIN SampleRequests] :
            /\ \A r \in Reqs : r > 1 => pick[r - 1] <= pick[r]
            /\ InitReqVars([r \in Reqs |-> SampleRequests[pick[r]]], Reqs)
       \/ \E one \in AllRequests :
            InitReqVars([r \in Reqs |-> IF r = 1 THEN one ELSE NoRequest], {1})

(***************************************************************************)
(* log_request_info, one action per stretch of code between two places     *)
(* where the model lets the scheduler look at the task.                    *)
(***************************************************************************)
Goto(r, p) ==
    /\ pc' = [pc EXCEPT ![r] = p]
    /\ running' = Sched(r, p)

\* line 47, up to the await of line 50
Start(r) ==
    /\ pc[r] = "start"
    /\ CanRun(r)
    /\ \E now \in ClockValues : start_time' = [start_time EXCEPT ![r] = now]
    /\ Goto(r, "await_body")
    /\ UNCHANGED <<req, response, outcome, calls, returned, log, sinkVars>>

\* the body has been read: lines 53-71
Banner(r) ==
    /\ pc[r] = "await_body"
    /\ CanRun(r)
    /\ log' = log \o meta_lines(r)
    /\ Goto(r, "log_headers")
    /\ UNCHANGED <<req, start_time, response, outcome, calls, returned, sinkVars>>

\* lines 74-76
Headers(r) ==
    /\ pc[r] = "log_headers"
    /\ CanRun(r)
    /\ log' = log \o header_lines(r)
    /\ Goto(r, "log_query")
    /\ UNCHANGED <<req, start_time, response, outcome, calls, returned, sinkVars>>

\* lines 79-82
Query(r) ==
    /\ pc[r] = "log_query"
    /\ CanRun(r)
    /\ log' = log \o query_lines(r)
    /\ Goto(r, "log_body")
    /\ UNCHANGED <<req, start_time, response, outcome, calls, returned, sinkVars>>

\* lines 85-93; an exception other than JSONDecodeError leaves the middleware
\* and the server answers 500
Body(r) ==
    /\ pc[r] = "log_body"
    /\ CanRun(r)
    /\ LET step == body_step(r)
       IN  /\ log' = log \o step.lines
           /\ IF step.raised
              THEN /\ Goto(r, "raised")
                   /\ returned' = [returned EXCEPT ![r] = server_error]
              ELSE /\ Goto(r, "log_end")
                   /\ UNCHANGED returned
    /\ UNCHANGED <<req, start_time, response, outcome, calls, sinkVars>>

\* lines 95-101: the closing records, then call_next is invoked and awaited
Close(r) ==
    /\ pc[r] = "log_end"
    /\ CanRun(r)
    /\ log' = log \o close_lines(r)
    /\ calls' = [calls EXCEPT ![r] = @ + 1]
    /\ Goto(r, "await_call_next")
    /\ UNCHANGED <<req, start_time, response, outcome, returned, sinkVars>>

\* the downstream application answers the request handed to call_next
Endpoint(r) ==
    /\ pc[r] = "await_call_next"
    /\ CanRun(r)
    /\ response' = [response EXCEPT ![r] = app(scope(r))]
    /\ outcome' = [outcome EXCEPT ![r] = "response"]
    /\ Goto(r, "resume")
    /\ UNCHANGED <<req, start_time, calls, returned, log, sinkVars>>

\* lines 104-116: call_next returned a response
Post(r) ==
    /\ pc[r] = "resume"
    /\ outcome[r] = "response"
    /\ CanRun(r)
    /\ \E end_time \in ClockValues : log' = log \o post_lines(r, end_time)
    /\ returned' = [returned EXCEPT ![r] = response[r]]
    /\ Goto(r, "done")
    /\ UNCHANGED <<req, start_time, response, outcome, calls, sinkVars>>

Next ==
    \E r \in Reqs :
        \/ Start(r)
        \/ Banner(r)
        \/ Headers(r)
        \/ Query(r)
        \/ Body(r)
        \/ Close(r)
        \/ Endpoint(r)
        \/ Post(r)

Spec == Init /\ [][Next]_vars

(***************************************************************************)
(* A downstream handler that can fail: call_next re-raises the handler's   *)
(* exception inside the middleware, at line 101.                           *)
(***************************************************************************)
EndpointFault(r) ==
    /\ pc[r] = "await_call_next"
    /\ CanRun(r)
    /\ outcome' = [outcome EXCEPT ![r] = "exception"]
    /\ Goto(r, "resume")
    /\ UNCHANGED <<req, start_time, response, calls, returned, log, sinkVars>>

\* line 101 raises: nothing in log_request_info catches it, lines 104-116 are
\* skipped and the server answers 500
Propagate(r) ==
    /\ pc[r] = "resume"
    /\ outcome[r] = "exception"
    /\ CanRun(r)
    /\ returned' = [returned EXCEPT ![r] = server_error]
    /\ Goto(r, "raised")
    /\ UNCHANGED <<req, start_time, response, outcome, calls, log, sinkVars>>

NextFault ==
    \/ Next
    \/ \E r \in Reqs : EndpointFault(r)
    \/ \E r \in Reqs : Propagate(r)

SpecFault == Init /\ [][NextFault]_vars

(***************************************************************************)
(* The file sink alone, fed records of any of the sizes of Records.        *)
(***************************************************************************)
InitSink ==
    /\ InitSinkVars
    /\ InitReqVars([r \in Reqs |-> NoRequest], {})

\* RotatingFileHandler.emit: roll over if the record would reach maxBytes,
\* then write the record and its terminator
Emit(record) ==
    /\ generation < backupCount + MaxRollovers
    /\ IF shouldRollover(fileSize, record)
       THEN /\ backups' = doRollover(backups, generation)
            /\ generation' = generation + 1
            /\ fileSize' = record.bytes + 1
       ELSE /\ UNCHANGED <<backups, generation>>
            /\ fileSize' = fileSize + record.bytes + 1
    /\ lastWrite' = record.bytes + 1
    /\ UNCHANGED reqVars

NextSink == \E record \in Records : Emit(record)

SpecSink == InitSink /\ [][NextSink]_vars

(***************************************************************************)
(* Properties.                                                             *)
(***************************************************************************)
Positions(r, kinds) == {i \in DOMAIN log : log[i].rid = r /\ log[i].kind \in kinds}

\* every element but the largest has its successor in S
IsInterval(S) == \A i \in S : (i + 1) \in S \/ (\A j \in S : j <= i)

PastBodyStep(r) == pc[r] \in {"log_end", "await_call_next", "resume", "done", "raised"}

C2_OwnResponse ==
    \A r \in Reqs :
        (pc[r] = "done" /\ returned[r].status_code = 200) =>
            /\ <<47>> \o returned[r].body.path = req[r].url_path
            /\ returned[r].body.method = req[r].method

\* two requests with different paths and methods were in flight together (q's
\* pre-phase ran while r awaited call_next) and both have been acknowledged
C2_Witness ==
    \E r \in Reqs, q \in Reqs :
        /\ r # q
        /\ pc[r] = "done" /\ pc[q] = "done"
        /\ returned[r].status_code = 200 /\ returned[q].status_code = 200
        /\ req[r].method # req[q].method
        /\ req[r].url_path # req[q].url_path
        /\ \E i \in Positions(r, {"request_details"}), j \in Positions(q, {"banner"}),
              k \in Positions(r, {"response"}) : i < j /\ j < k

\* C3: in the sink's output every pre-phase record of a request precedes every
\* post-phase record of that request, and a post-phase record is logged only
\* after the opening banner and the request-details record of the same request.
C3_PreBeforePost ==
    \A r \in Reqs :
        /\ \A i \in Positions(r, PreKinds), j \in Positions(r, PostKinds) : i < j
        /\ \A j \in Positions(r, PostKinds) :
              /\ \E i \in Positions(r, {"banner"}) : i < j
              /\ \E i \in Positions(r, {"request_details"}) : i < j

\* the blocks of two requests are nested in the output: r's pre-phase, q's
\* pre-phase, q's post-phase, r's post-phase
C3_Witness ==
    \E r \in Reqs, q \in Reqs :
        /\ r # q
        /\ \E a \in Positions(r, {"request_details"}), b \in Positions(q, {"request_details"}),
              c \in Positions(q, {"response_details"}), d \in Positions(r, {"response"}) :
                a < b /\ b < c /\ c < d

\* C4: whatever the body bytes, the pre-phase ends without raising, call_next
\* is invoked exactly once and the response returned is the one it produced.
C4_LoggerNeverRaises ==
    \A r \in Reqs :
        /\ pc[r] # "raised"
        /\ pc[r] \in {"await_call_next", "resume", "done"} => calls[r] = 1
        /\ pc[r] = "done" => returned[r] = response[r]

\* C5: every request the server has answered, whatever its method, got the
\* acknowledgment: status 200 and a body with status "success".  (Stated of the
\* requests whose middleware ran to its end; those it left by an exception are
\* the subject of C4.)
C5_EveryRequestAcknowledged ==
    \A r \in Reqs :
        pc[r] = "done" =>
            /\ returned[r].status_code = 200
            /\ returned[r].body.status = "success"

\* C6: once a request whose downstream handler faulted has been answered, the
\* two post-phase records of that request are in the log.
C6_PostPhaseAfterFault ==
    \A r \in Reqs :
        (outcome[r] = "exception" /\ returned[r] # NoResponse) =>
            /\ Positions(r, {"response"}) # {}
            /\ Positions(r, {"response_details"}) # {}

\* C7: callback.log never holds more than maxBytes plus the record written
\* last, at most backupCount backups exist, and the backups are the newest
\* generations: each rollover at the bound deletes the oldest one.
C7_SinkBounded ==
    /\ fileSize <= maxBytes + lastWrite
    /\ Cardinality({i \in DOMAIN backups : backups[i] # Absent}) <= backupCount
    /\ \A i \in DOMAIN backups : backups[i] # Absent => backups[i] = generation - i

\* callback.log is over maxBytes, all backupCount backups exist and the first
\* generation has been deleted
C7_Witness ==
    /\ fileSize > maxBytes
    /\ \A i \in 1..backupCount : backups[i] # Absent
    /\ generation > backupCount
    /\ \A i \in DOMAIN backups : backups[i] # 0

\* C8: the process_time of every post-phase record is at least 0.
C8_ProcessTimeNonNegative ==
    \A i \in DOMAIN log :
        /\ log[i].kind = "response" => log[i].num >= 0
        /\ log[i].kind = "response_details" => log[i].text[1].process_time >= 0

\* the text line 90 or line 93 logs for a decoded body
ExpectedBodyText(text) ==
    IF json_loads(text).err = "" THEN json_dumps(json_loads(text).val, 2, FALSE) ELSE text

\* C9: a request with a non-empty raw body has exactly one body-content record,
\* after its header and query records and before its closing banner, holding
\* the pretty-printed JSON or else the raw decoded text; a request with an
\* empty body has none, and its body_content is None.
C9_BodyLoggedOnce ==
    \A r \in Reqs :
        PastBodyStep(r) =>
            IF bytes_of(req[r].body) # <<>>
            THEN /\ Cardinality(Positions(r, {"body"})) = 1
                 /\ \A i \in Positions(r, {"body"}) :
                       /\ log[i].text = ExpectedBodyText(decode_utf8_ignore(bytes_of(req[r].body)))
                       /\ \A j \in Positions(r, {"header", "query"}) : j < i
                       /\ \A j \in Positions(r, {"banner_end"}) : i < j
            ELSE /\ Positions(r, {"body"}) = {}
                 /\ \A i \in Positions(r, {"request_details"}) : log[i].text[1].body_content.none

\* C10: the pre-phase records of a request are contiguous in the output, and
\* so are its two post-phase records: records of other requests lie only
\* before the pre-phase block, between the two blocks, or after the second.
C10_BlocksContiguous ==
    \A r \in Reqs :
        /\ IsInterval(Positions(r, PreKinds))
        /\ IsInterval(Positions(r, PostKinds))

\* r is in the middle of its pre-phase while q's body read is complete and q
\* waits for the loop; an earlier request's records are already in the log
C10_Witness ==
    \E r \in Reqs, q \in Reqs :
        /\ r # q
        /\ pc[r] = "log_query"
        /\ Positions(r, {"header"}) # {}
        /\ pc[q] = "await_body"
        /\ running = r

====
